---- MODULE Spec2Model ----
(***************************************************************************)
(* World Data Quiz (src/quiz_app.py): one browser session of run_quiz.     *)
(*                                                                         *)
(* The script run_quiz is executed top to bottom on every render pass.  A  *)
(* pass is started by the page load, by the auto-refresh component, by a   *)
(* widget interaction (name box, radio, buttons) or by the rerun the       *)
(* script itself requests.  st.session_state survives between passes; the  *)
(* Google sheet is shared with the sessions of other players.              *)
(*                                                                         *)
(* A session_state key is modelled as a sequence of length 0 (the key is   *)
(* not in st.session_state) or 1 (the key holds that value).  Percentages  *)
(* are kept in hundredths (3333 is 33.33).                                 *)
(***************************************************************************)
EXTENDS Integers, Sequences, FiniteSets, TLC

VARIABLES
    player_name,         \* st.session_state.player_name
    shuffled_questions,  \* st.session_state.shuffled_questions
    current_q,           \* st.session_state.current_q
    score,               \* st.session_state.score
    answer,              \* st.session_state["answer_<i>"], i = 0..n-1 (widget keys)
    timer_start,         \* st.session_state["timer_start_<i>"] (set with "timer_<i>")
    name_input,          \* text held by the page's name box
    now,                 \* time.time(), whole seconds
    sheet,               \* rows of the Google sheet, in append order
    failures,            \* Score Store calls that have raised so far
    rerun,               \* st.experimental_rerun() was called: a pass is pending
    shown,               \* widgets rendered by the last pass
    last,                \* branch of run_quiz the last pass ended in
    raised,              \* exception that left the last pass ("" when none)
    top5,                \* leaderboard rows rendered by the last pass
    player_rank,         \* player_rank computed by the last pass
    percentage           \* percentage written by st.write in the last pass

vars == <<player_name, shuffled_questions, current_q, score, answer, timer_start,
          name_input, now, sheet, failures, rerun, shown, last, raised, top5,
          player_rank, percentage>>

session == <<player_name, shuffled_questions, current_q, score, answer, timer_start>>

(***************************************************************************)
(* Bounds of the model.                                                    *)
(***************************************************************************)
NumQuestions == 2     \* rows of questions.csv
MaxTime      == 15    \* the clock stops here
MaxRows      == 2     \* rows the sheet can hold
MaxFailures  == 1     \* Score Store calls that may raise
MaxOthers    == 1     \* rows other players' sessions may append

(***************************************************************************)
(* Program constants.                                                      *)
(***************************************************************************)
time_limit       == 15   \* line 148
refresh_interval == 5    \* line 108: st_autorefresh(interval=5000), in seconds
head_rows        == 5    \* lines 194, 232: leaderboard.head(5)

Absent    == <<>>
Some(v)   == <<v>>
Has(x)    == x # <<>>
Get(x)    == x[1]
PyNone    == "None"
Max(a, b) == IF a >= b THEN a ELSE b
Min(a, b) == IF a <= b THEN a ELSE b

Indices == 0 .. (NumQuestions - 1)

\* load_questions(): the records of questions.csv; "options" after split(";").
load_questions ==
    [k \in 1 .. NumQuestions |->
        [question |-> k,
         options  |-> <<"a", "b">>,
         answer   |-> IF k % 2 = 1 THEN "a" ELSE "b"]]

Choices == {"a", "b"}

\* Names typed into the name box; "" is the empty box.
Names == {"", "ann"}

\* Sampling with replacement: random.choices(questions, k=len(questions)).
SamplesMut(questions) ==
    LET n == Len(questions) IN
    { [k \in 1 .. n |-> questions[p[k]]] : p \in [1 .. n -> 1 .. n] }

\* random.sample(questions, len(questions)): every ordering of the bank.
Samples(questions) ==
    LET n == Len(questions) IN
    { [k \in 1 .. n |-> questions[p[k]]] :
        p \in { f \in [1 .. n -> 1 .. n] : \A i, j \in 1 .. n : i # j => f[i] # f[j] } }


(***************************************************************************)
(* Score Store: save_score and load_leaderboard.                           *)
(***************************************************************************)
\* round((score / total) * 100, 2), in hundredths.  score*10000/total has a
\* fractional part of exactly 1/2 only when 64 divides total, so for the
\* totals of the model rounding to nearest is what round() returns.
round2(sc, total) == (20000 * sc + total) \div (2 * total)

\* The row save_score appends to the sheet.
\* The row written at the top of the sheet: insert_row(row, 1).
save_scoreMut(name, sc, total) ==
    <<[Name |-> name, Score |-> sc, Total |-> total,
       Percentage |-> round2(sc, total)]>> \o sheet

save_score(name, sc, total) ==
    Append(sheet, [Name |-> name, Score |-> sc, Total |-> total,
                   Percentage |-> round2(sc, total)])

\* The sort with the second key lost: by="Score" alone.
BeforeMut(r1, r2) == r1.Score > r2.Score

\* sort_values(by=["Score", "Percentage"], ascending=[False, False]): r1 is
\* placed before r2 when it is greater on the key pair.
Before(r1, r2) ==
    \/ r1.Score > r2.Score
    \/ r1.Score = r2.Score /\ r1.Percentage > r2.Percentage

\* Rows of a sorted sequence that stay ahead of row r (r came first in the sheet).
RECURSIVE Ahead(_, _)
Ahead(rows, r) ==
    IF rows # <<>> /\ Before(Head(rows), r) THEN 1 + Ahead(Tail(rows), r) ELSE 0

\* The lexsort behind sort_values on two keys keeps equal rows in read order.
RECURSIVE sort_values(_)
sort_values(rows) ==
    IF rows = <<>> THEN <<>>
    ELSE LET rest == sort_values(Tail(rows))
             k    == Ahead(rest, Head(rows))
         IN  SubSeq(rest, 1, k) \o <<Head(rows)>> \o SubSeq(rest, k + 1, Len(rest))

\* leaderboard.head(5)
head(rows) == SubSeq(rows, 1, Min(head_rows, Len(rows)))

\* The rank taken from the last matching row, [-1], instead of the first.
rank_ofMut(rows, name) ==
    LET hits == { i \in 1 .. Len(rows) : rows[i].Name = name } IN
    IF hits = {} THEN Absent
    ELSE Some(CHOOSE i \in hits : \A j \in hits : i >= j)

\* rank_df.index[rank_df['Name'] == name][0] + 1; Absent stands for the
\* IndexError of [0] on an empty index.
rank_of(rows, name) ==
    LET hits == { i \in 1 .. Len(rows) : rows[i].Name = name } IN
    IF hits = {} THEN Absent
    ELSE Some(CHOOSE i \in hits : \A j \in hits : i <= j)

(***************************************************************************)
(* The question branch of run_quiz.                                        *)
(***************************************************************************)
\* The countdown floored at 1: max(time_limit - elapsed, 1).
remainingFloorMut(elapsed) == Max(time_limit - elapsed, 1)

\* The countdown without its floor: time_limit - elapsed.
remainingMut(elapsed) == time_limit - elapsed

\* remaining = max(time_limit - elapsed, 0), elapsed = int(now - timer_start)
remaining(elapsed) == Max(time_limit - elapsed, 0)

\* The grading with the comparison lost: every evaluation scores.
gradedMut(sc, a, q) == sc + 1

\* if st.session_state[answer_key] == q["answer"]: score += 1
graded(sc, a, q) == IF a = q.answer THEN sc + 1 ELSE sc

\* Keys of widgets a finished pass did not render are dropped by the
\* framework: only the radio of question i (if any) keeps its key.
KeepRadio(ans, keep) == [i \in Indices |-> IF i \in keep THEN ans[i] ELSE Absent]

\* The write made fire-and-forget: try: save_score(...) except: pass.
AdvanceMut(branch, widgets, pn, sq, cq, sc, ans, ts) ==
    LET q   == sq[cq + 1]
        sc1 == graded(sc, Get(ans[cq]), q)
    IN  /\ player_name' = pn
        /\ shuffled_questions' = Some(sq)
        /\ timer_start' = ts
        /\ score' = Some(sc1)
        /\ shown' = widgets
        /\ last' = branch
        /\ top5' = <<>>
        /\ player_rank' = Absent
        /\ percentage' = Absent
        /\ \/ /\ Len(sheet) < MaxRows
              /\ sheet' = save_score(Get(pn), sc1, cq + 1)
              /\ current_q' = Some(cq + 1)
              /\ answer' = KeepRadio(ans, {cq})
              /\ rerun' = TRUE
              /\ raised' = ""
              /\ failures' = failures
           \/ /\ failures < MaxFailures
              /\ sheet' = sheet
              /\ current_q' = Some(cq + 1)
              /\ answer' = KeepRadio(ans, {cq})
              /\ rerun' = TRUE
              /\ raised' = ""
              /\ failures' = failures + 1

\* Lines 163-175 and 179-188: grade, save_score, advance, rerun.  save_score
\* either appends the row or raises; only after it returns is current_q
\* incremented.
Advance(branch, widgets, pn, sq, cq, sc, ans, ts) ==
    LET q   == sq[cq + 1]
        sc1 == graded(sc, Get(ans[cq]), q)
    IN  /\ player_name' = pn
        /\ shuffled_questions' = Some(sq)
        /\ timer_start' = ts
        /\ score' = Some(sc1)
        /\ shown' = widgets
        /\ last' = branch
        /\ top5' = <<>>
        /\ player_rank' = Absent
        /\ percentage' = Absent
        /\ \/ /\ Len(sheet) < MaxRows
              /\ sheet' = save_score(Get(pn), sc1, cq + 1)
              /\ current_q' = Some(cq + 1)
              /\ answer' = KeepRadio(ans, {cq})
              /\ rerun' = TRUE
              /\ raised' = ""
              /\ failures' = failures
           \/ /\ failures < MaxFailures
              /\ sheet' = sheet
              /\ current_q' = Some(cq)
              /\ answer' = ans
              /\ rerun' = FALSE
              /\ raised' = "StoreWriteError"
              /\ failures' = failures + 1

\* Lines 190-213: the leaderboard under the question.
Board(widgets, pn, sq, cq, sc, ans, ts) ==
    /\ player_name' = pn
    /\ shuffled_questions' = Some(sq)
    /\ current_q' = Some(cq)
    /\ score' = Some(sc)
    /\ timer_start' = ts
    /\ shown' = widgets
    /\ last' = "question"
    /\ player_rank' = Absent
    /\ percentage' = Absent
    /\ rerun' = FALSE
    /\ sheet' = sheet
    /\ \/ /\ top5' = head(sort_values(sheet))
          /\ answer' = KeepRadio(ans, {cq})
          /\ raised' = ""
          /\ failures' = failures
       \/ /\ failures < MaxFailures
          /\ top5' = <<>>
          /\ answer' = ans
          /\ raised' = "StoreReadError"
          /\ failures' = failures + 1

\* Lines 136-213.
Question(submit, w0, pn, sq, cq, sc, ans0) ==
    LET ans == IF Has(ans0[cq]) THEN ans0 ELSE [ans0 EXCEPT ![cq] = Some(PyNone)]
        ts  == IF Has(timer_start[cq]) THEN timer_start
               ELSE [timer_start EXCEPT ![cq] = Some(now)]
        rem == remaining(now - Get(ts[cq]))
    IN  IF rem = 0
        THEN Advance("timeout", w0 \cup {"radio"}, pn, sq, cq, sc, ans, ts)
        ELSE IF submit
        THEN Advance("submit", w0 \cup {"radio", "submit"}, pn, sq, cq, sc, ans, ts)
        ELSE Board(w0 \cup {"radio", "submit"}, pn, sq, cq, sc, ans, ts)

(***************************************************************************)
(* The completed branch of run_quiz.                                       *)
(***************************************************************************)
\* The key list with "score" forgotten.
RestartKeysMut == {"shuffled_questions", "current_q", "colors"}

\* for key in [...]: del st.session_state[key]
RestartKeys == {"shuffled_questions", "current_q", "score", "colors"}
Del(key, value) == IF key \in RestartKeys THEN Absent ELSE value

\* A completed branch that records the final result on every pass:
\* save_score(player_name, score, total) after line 223.
CompletedMut(again, w0, pn, sq, cq, sc, ans) ==
    /\ player_name' = pn
    /\ percentage' = Some(round2(sc, Len(sq)))
    /\ sheet' = save_score(Get(pn), sc, Len(sq))
    /\ top5' = head(sort_values(sheet'))
    /\ player_rank' = rank_of(sort_values(sheet'), Get(pn))
    /\ raised' = ""
    /\ shown' = w0 \cup {"again"}
    /\ last' = "completed"
    /\ rerun' = FALSE
    /\ answer' = KeepRadio(ans, {})
    /\ shuffled_questions' = Some(sq)
    /\ current_q' = Some(cq)
    /\ score' = Some(sc)
    /\ UNCHANGED <<timer_start, failures>>

\* Lines 218-271.
Completed(again, w0, pn, sq, cq, sc, ans) ==
    LET lb == sort_values(sheet)
        rk == rank_of(lb, Get(pn))
    IN  /\ player_name' = pn
        /\ percentage' = Some(round2(sc, Len(sq)))
        /\ sheet' = sheet
        /\ \/ /\ failures < MaxFailures
              /\ raised' = "StoreReadError"
              /\ failures' = failures + 1
              /\ top5' = <<>>
              /\ player_rank' = Absent
              /\ shown' = w0
              /\ last' = "completed"
              /\ rerun' = FALSE
              /\ answer' = ans
              /\ shuffled_questions' = Some(sq)
              /\ current_q' = Some(cq)
              /\ score' = Some(sc)
              /\ timer_start' = timer_start
           \/ /\ failures' = failures
              /\ top5' = head(lb)
              /\ player_rank' = rk
              /\ IF ~Has(rk)
                 THEN /\ raised' = "IndexError"
                      /\ shown' = w0
                      /\ last' = "completed"
                      /\ rerun' = FALSE
                      /\ answer' = ans
                      /\ shuffled_questions' = Some(sq)
                      /\ current_q' = Some(cq)
                      /\ score' = Some(sc)
                      /\ timer_start' = timer_start
                 ELSE /\ raised' = ""
                      /\ shown' = w0 \cup {"again"}
                      /\ answer' = KeepRadio(ans, {})
                      /\ IF again
                         THEN /\ last' = "restart"
                              /\ rerun' = TRUE
                              /\ shuffled_questions' = Del("shuffled_questions", Some(sq))
                              /\ current_q' = Del("current_q", Some(cq))
                              /\ score' = Del("score", Some(sc))
                              /\ timer_start' =
                                     [i \in Indices |-> Del("timer_start", timer_start[i])]
                         ELSE /\ last' = "completed"
                              /\ rerun' = FALSE
                              /\ shuffled_questions' = Some(sq)
                              /\ current_q' = Some(cq)
                              /\ score' = Some(sc)
                              /\ timer_start' = timer_start

(***************************************************************************)
(* One render pass: run_quiz from its first line.                          *)
(***************************************************************************)
\* Lines 114-116: no name, warn and return.
Prompt(w0, pn) ==
    /\ player_name' = pn
    /\ shown' = w0
    /\ last' = "prompt"
    /\ raised' = ""
    /\ rerun' = FALSE
    /\ top5' = <<>>
    /\ player_rank' = Absent
    /\ percentage' = Absent
    /\ answer' = KeepRadio(answer, {})
    /\ UNCHANGED <<shuffled_questions, current_q, score, timer_start, sheet, failures>>

\* box: the text the name box holds; ans: the radio keys as the page sent
\* them; submit, again: the button that was clicked, if any.
run_quiz(box, ans, submit, again) ==
    LET drawn == ~Has(player_name)                       \* line 111
        pn    == IF drawn THEN Some(box) ELSE player_name \* line 112
        w0    == IF drawn THEN {"name"} ELSE {}
    IN  IF Get(pn) = ""
        THEN Prompt(w0, pn)
        ELSE \E order \in (IF Has(shuffled_questions)
                           THEN {Get(shuffled_questions)}
                           ELSE Samples(load_questions)) :
               LET fresh == ~Has(shuffled_questions)      \* lines 120-124
                   cq    == IF fresh THEN 0 ELSE Get(current_q)
                   sc    == IF fresh THEN 0 ELSE Get(score)
               IN  IF cq < Len(order)                     \* line 136
                   THEN Question(submit, w0, pn, order, cq, sc, ans)
                   ELSE Completed(again, w0, pn, order, cq, sc, ans)

(***************************************************************************)
(* What starts a pass, and the environment.                                *)
(***************************************************************************)
\* A new session: st.session_state is empty.  The name box is empty on a
\* fresh page; a page that outlives its server session reconnects with the
\* text it holds, which the first pass of the new session then reads.
Init ==
    /\ player_name = Absent
    /\ shuffled_questions = Absent
    /\ current_q = Absent
    /\ score = Absent
    /\ answer = [i \in Indices |-> Absent]
    /\ timer_start = [i \in Indices |-> Absent]
    /\ name_input \in Names
    /\ now = 0
    /\ sheet = <<>>
    /\ failures = 0
    /\ rerun = FALSE
    /\ shown = {}
    /\ last = "init"
    /\ raised = ""
    /\ top5 = <<>>
    /\ player_rank = Absent
    /\ percentage = Absent

\* The first pass of the session.
Load ==
    /\ last = "init"
    /\ run_quiz(name_input, answer, FALSE, FALSE)
    /\ UNCHANGED <<name_input, now>>

\* st_autorefresh (line 108) starts a pass.
Refresh ==
    /\ last # "init"
    /\ ~rerun
    /\ run_quiz(name_input, answer, FALSE, FALSE)
    /\ UNCHANGED <<name_input, now>>

\* The pass st.experimental_rerun() asked for (lines 175, 188, 271).
Rerun ==
    /\ rerun
    /\ run_quiz(name_input, answer, FALSE, FALSE)
    /\ UNCHANGED <<name_input, now>>

\* The player edits the name box (line 112) while the page shows it.
TypeName ==
    /\ ~rerun
    /\ "name" \in shown
    /\ \E s \in Names \ {name_input} :
          /\ name_input' = s
          /\ run_quiz(s, answer, FALSE, FALSE)
    /\ UNCHANGED now

\* The player picks an option of the radio (line 145).
SelectOption ==
    /\ ~rerun
    /\ "radio" \in shown
    /\ Has(current_q) /\ Get(current_q) \in Indices
    /\ \E o \in Choices \ {Get(answer[Get(current_q)])} :
          run_quiz(name_input, [answer EXCEPT ![Get(current_q)] = Some(o)], FALSE, FALSE)
    /\ UNCHANGED <<name_input, now>>

\* The player clicks "Submit Answer" (line 178).
ClickSubmit ==
    /\ ~rerun
    /\ "submit" \in shown
    /\ run_quiz(name_input, answer, TRUE, FALSE)
    /\ UNCHANGED <<name_input, now>>

\* The player clicks "Play Again" (line 267).
ClickPlayAgain ==
    /\ ~rerun
    /\ "again" \in shown
    /\ run_quiz(name_input, answer, FALSE, TRUE)
    /\ UNCHANGED <<name_input, now>>

\* time.time() moves on; the clock is observed once per refresh interval.
Tick ==
    /\ ~rerun
    /\ now + refresh_interval <= MaxTime
    /\ now' = now + refresh_interval
    /\ UNCHANGED <<session, name_input, sheet, failures, rerun, shown, last, raised,
                   top5, player_rank, percentage>>

\* save_score in the session of another player, who has answered every
\* question and one of them correctly.
OtherName == "bob"
OtherSave ==
    /\ Len(sheet) < MaxRows
    /\ Cardinality({ i \in 1 .. Len(sheet) : sheet[i].Name = OtherName }) < MaxOthers
    /\ sheet' = save_score(OtherName, 1, NumQuestions)
    /\ UNCHANGED <<session, name_input, now, failures, rerun, shown, last, raised,
                   top5, player_rank, percentage>>

Next ==
    \/ Load
    \/ Refresh
    \/ Rerun
    \/ TypeName
    \/ SelectOption
    \/ ClickSubmit
    \/ ClickPlayAgain
    \/ Tick
    \/ OtherSave

Spec == Init /\ [][Next]_vars

(***************************************************************************)
(* The ranking of lines 229-254 on the records of any sheet: the session   *)
(* has just advanced past its last question, and the completed branch      *)
(* reads, sorts and ranks what load_leaderboard returns.                   *)
(***************************************************************************)
MaxRecords == 6     \* rows of the sheet that is ranked

\* Rows returned by sheet.get_all_records(): two of them equal on both sort
\* keys, two under one name.
RankRecords ==
    { [Name |-> "A", Score |-> 5, Total |-> 5, Percentage |-> 8000],
      [Name |-> "B", Score |-> 5, Total |-> 5, Percentage |-> 9000],
      [Name |-> "C", Score |-> 3, Total |-> 5, Percentage |-> 10000],
      [Name |-> "C", Score |-> 5, Total |-> 5, Percentage |-> 8000] }

RankPlayers == {"A", "C"}

InitRank ==
    /\ player_name \in { Some(p) : p \in RankPlayers }
    /\ name_input = Get(player_name)
    /\ shuffled_questions = Some(load_questions)
    /\ current_q = Some(NumQuestions)
    /\ score = Some(0)
    /\ answer = [i \in Indices |-> Absent]
    /\ timer_start = [i \in Indices |-> Some(0)]
    /\ now = 0
    /\ sheet \in UNION { [1 .. k -> RankRecords] : k \in 0 .. MaxRecords }
    /\ failures = 0
    /\ rerun = TRUE
    /\ shown = {"radio", "submit"}
    /\ last = "submit"
    /\ raised = ""
    /\ top5 = <<>>
    /\ player_rank = Absent
    /\ percentage = Absent

NextRank ==
    \/ Rerun
    \/ Refresh

SpecRank == InitRank /\ [][NextRank]_vars


(***************************************************************************)
(* Vocabulary of the properties.                                           *)
(***************************************************************************)
\* Any step that runs run_quiz.
RenderPass ==
    Load \/ Refresh \/ Rerun \/ TypeName \/ SelectOption \/ ClickSubmit \/ ClickPlayAgain

\* current_index and score of the session; 0 before lines 122-123 have run.
CurrentIndex == IF Has(current_q) THEN Get(current_q) ELSE 0
Score        == IF Has(score) THEN Get(score) ELSE 0

InProgress == Has(current_q) /\ Get(current_q) < NumQuestions
IsCompleted == Has(current_q) /\ Get(current_q) = NumQuestions

\* The pass ran one of the two triggers (timeout, submit) on a question.
Triggers == {"timeout", "submit"}

\* The budget of the question on display has run out.
Expired ==
    /\ InProgress
    /\ Has(timer_start[Get(current_q)])
    /\ now - Get(timer_start[Get(current_q)]) >= time_limit

Abs(x) == IF x >= 0 THEN x ELSE -x

\* p (in hundredths) is sc/total*100 rounded to 2 decimals.
IsRounded(p, sc, total) == 2 * Abs(p * total - 10000 * sc) <= total

(***************************************************************************)
(* C1: in every reachable state of a session, score <= current_index.      *)
(***************************************************************************)
C1_ScoreAtMostIndex ==
    (Has(score) /\ Has(current_q)) => Get(score) <= Get(current_q)

(***************************************************************************)
(* C2: a pass whose save_score raises while question i is being advanced   *)
(* still moves current_index to i+1, and score counts the answer to        *)
(* question i once.                                                        *)
(***************************************************************************)
C2_AdvanceDespiteWriteFailure ==
    [][ (RenderPass /\ raised' = "StoreWriteError")
            => /\ current_q' = Some(CurrentIndex + 1)
               /\ Score' - Score \in {0, 1} ]_vars

(***************************************************************************)
(* C3: exactly one trigger advances each question: a click on Submit in a  *)
(* pass with no time left runs the timeout branch only, and every pass     *)
(* that evaluates a question advances current_index by exactly 1 and adds  *)
(* at most 1 to score, so that no question is evaluated twice.             *)
(***************************************************************************)
C3_OneTriggerPerQuestion ==
    [][ /\ (ClickSubmit /\ Expired) => last' = "timeout"
        /\ (RenderPass /\ last' \in Triggers)
              => /\ CurrentIndex' = CurrentIndex + 1
                 /\ Score' - Score \in {0, 1} ]_vars

(***************************************************************************)
(* C4: an option picked after the budget of question i has run out is not  *)
(* used to evaluate question i and earns no point.                         *)
(***************************************************************************)
C4_NoInputAfterExpiry ==
    [][ (SelectOption /\ Expired) => Score' = Score ]_vars

(***************************************************************************)
(* C5: on every advance from question i to i+1 (submit or timeout), score  *)
(* grows by 1 exactly when the recorded answer for i is the correct one,   *)
(* and the row (player_name, new score, i+1, new score/(i+1)*100 rounded   *)
(* to 2 decimals) is appended to the sheet with the advance, no advance    *)
(* happening without it.                                                   *)
(***************************************************************************)
C5_AdvanceGradesAndRecords ==
    [][ (Has(current_q') /\ Get(current_q') = CurrentIndex + 1)
            => LET i   == CurrentIndex
                   q   == Get(shuffled_questions')[i + 1]
                   row == sheet'[Len(sheet')]
               IN  /\ last' \in Triggers
                   /\ Has(answer'[i])
                   /\ Score' = Score + (IF Get(answer'[i]) = q.answer THEN 1 ELSE 0)
                   /\ Len(sheet') = Len(sheet) + 1
                   /\ SubSeq(sheet', 1, Len(sheet)) = sheet
                   /\ row.Name = Get(player_name')
                   /\ row.Score = Score'
                   /\ row.Total = i + 1
                   /\ IsRounded(row.Percentage, Score', i + 1) ]_vars

\* A question was answered correctly, its row written, and the index advanced.
C5_Witness ==
    /\ last \in Triggers
    /\ rerun
    /\ Score >= 1
    /\ sheet # <<>>
    /\ sheet[Len(sheet)].Name = "ann"

(***************************************************************************)
(* C6: from NotStarted, the pass that follows the submission of a          *)
(* non-empty name stores it as player_name, creates the shuffled order,    *)
(* sets current_index = 0 and score = 0 and displays question 0; an empty  *)
(* name leaves the session at the prompt.                                  *)
(***************************************************************************)
C6_NameSubmissionStarts ==
    [][ (TypeName /\ ~Has(shuffled_questions))
            => IF name_input' # ""
               THEN /\ player_name' = Some(name_input')
                    /\ Has(shuffled_questions')
                    /\ current_q' = Some(0)
                    /\ score' = Some(0)
                    /\ "radio" \in shown'
               ELSE last' = "prompt" ]_vars

(***************************************************************************)
(* C7: the restart action, offered only in Completed, removes              *)
(* current_index, score and the question order from the session and        *)
(* leaves the sheet as it was.                                             *)
(***************************************************************************)
C7_RestartKeepsStore ==
    [][ /\ ("again" \in shown /\ ~rerun) => IsCompleted
        /\ (Has(current_q) /\ ~Has(current_q'))
              => /\ IsCompleted
                 /\ last' = "restart"
                 /\ ~Has(score')
                 /\ ~Has(shuffled_questions')
                 /\ sheet' = sheet
        /\ last' = "restart" => ~Has(current_q') ]_vars

\* The restart has just run on a sheet that holds the session's rows.
C7_Witness ==
    /\ last = "restart"
    /\ ~Has(current_q)
    /\ Len(sheet) = NumQuestions

(***************************************************************************)
(* C8: in every session, also one begun after a restart, the timer of      *)
(* question i starts at the first pass that displays question i and is     *)
(* not changed by later passes of the session.                             *)
(***************************************************************************)
\* A pass that displays a question for the first time: the first pass of a
\* session, or the rerun that follows an advance.
FirstDisplay(i) ==
    /\ Load \/ Rerun
    /\ "radio" \in shown'
    /\ i = CurrentIndex

C8_TimerStartsAtFirstDisplay ==
    [][ \A i \in Indices :
          /\ FirstDisplay(i) => timer_start'[i] = Some(now)
          /\ (Has(timer_start[i]) /\ Has(shuffled_questions) /\ Has(shuffled_questions'))
                => timer_start'[i] = timer_start[i] ]_vars

(***************************************************************************)
(* C9: a completed session of n questions has 0 <= score <= n, and the     *)
(* percentage shown and the percentage of the session's last row are       *)
(* score/n*100 rounded to 2 decimals, within 0..100.                       *)
(***************************************************************************)
LastRowOf(name) ==
    LET hits == { i \in 1 .. Len(sheet) : sheet[i].Name = name } IN
    sheet[CHOOSE i \in hits : \A j \in hits : j <= i]

C9_CompletedScoreAndPercentage ==
    IsCompleted
        => /\ 0 <= Get(score) /\ Get(score) <= NumQuestions
           /\ Has(percentage)
                 => /\ IsRounded(Get(percentage), Get(score), NumQuestions)
                    /\ Get(percentage) \in 0 .. 10000
           /\ IsRounded(LastRowOf(Get(player_name)).Percentage, Get(score), NumQuestions)
           /\ LastRowOf(Get(player_name)).Percentage \in 0 .. 10000

(***************************************************************************)
(* C10: a pass in which the read of the sheet fails renders an empty top5  *)
(* and no player_rank and ends without an exception; current_index, score  *)
(* and the order are as that pass found them.                              *)
(***************************************************************************)
C10_ReadFailureContained ==
    [][ (RenderPass /\ failures' # failures /\ last' \in {"question", "completed"})
            => /\ raised' = ""
               /\ top5' = <<>>
               /\ player_rank' = Absent ]_vars


(***************************************************************************)
(* The countdown of lines 148-175 at any whole elapsed time: question 0    *)
(* was first displayed at time 0 and the next pass runs at any later time  *)
(* (auto-refresh is paused while the page is in the background).           *)
(***************************************************************************)
MaxElapsed == 20    \* latest time of the next pass

InitTimer ==
    /\ player_name = Some("ann")
    /\ name_input = "ann"
    /\ shuffled_questions \in { Some(s) : s \in Samples(load_questions) }
    /\ current_q = Some(0)
    /\ score = Some(0)
    /\ answer = [i \in Indices |-> IF i = 0 THEN Some(PyNone) ELSE Absent]
    /\ timer_start = [i \in Indices |-> IF i = 0 THEN Some(0) ELSE Absent]
    /\ now \in 0 .. MaxElapsed
    /\ sheet = <<>>
    /\ failures = 0
    /\ rerun = FALSE
    /\ shown = {"radio", "submit"}
    /\ last = "question"
    /\ raised = ""
    /\ top5 = <<>>
    /\ player_rank = Absent
    /\ percentage = Absent

NextTimer ==
    \/ Refresh
    \/ SelectOption
    \/ ClickSubmit
    \/ Rerun

SpecTimer == InitTimer /\ [][NextTimer]_vars

(***************************************************************************)
(* Progress of a session: every Score Store call returns, the wall clock   *)
(* keeps advancing, st_autorefresh keeps starting passes and a requested   *)
(* rerun is always run; the fairness is stated for the passes of a session *)
(* in progress.  The player may type, select and submit at any time, or do *)
(* nothing.                                                                *)
(***************************************************************************)
InitLive ==
    /\ player_name = Absent
    /\ shuffled_questions = Absent
    /\ current_q = Absent
    /\ score = Absent
    /\ answer = [i \in Indices |-> Absent]
    /\ timer_start = [i \in Indices |-> Absent]
    /\ name_input \in Names
    /\ now = 0
    /\ sheet = <<>>
    /\ failures = MaxFailures
    /\ rerun = FALSE
    /\ shown = {}
    /\ last = "init"
    /\ raised = ""
    /\ top5 = <<>>
    /\ player_rank = Absent
    /\ percentage = Absent

\* time.time() moves on.  Before a session starts the clock is followed up
\* to MaxTime; while a question is on display it is followed until that
\* question's time is up.
TickLive ==
    /\ ~rerun
    /\ \/ now + refresh_interval <= MaxTime
       \/ /\ InProgress
          /\ Has(timer_start[Get(current_q)])
          /\ ~Expired
    /\ now' = now + refresh_interval
    /\ UNCHANGED <<session, name_input, sheet, failures, rerun, shown, last, raised,
                   top5, player_rank, percentage>>

NextLive ==
    \/ Load
    \/ Refresh
    \/ Rerun
    \/ TypeName
    \/ SelectOption
    \/ ClickSubmit
    \/ TickLive

SpecLive ==
    /\ InitLive
    /\ [][NextLive]_vars
    /\ WF_vars(InProgress /\ Refresh)
    /\ WF_vars(InProgress /\ Rerun)
    /\ WF_vars(TickLive)

(***************************************************************************)
(* Vocabulary of the ranking properties.                                   *)
(***************************************************************************)
\* r1 ranks above r2: higher score, or equal score and higher percentage.
Outranks(r1, r2) ==
    \/ r1.Score > r2.Score
    \/ r1.Score = r2.Score /\ r1.Percentage > r2.Percentage

\* Rank of rows[i]: one more than the rows that outrank it or that equal it
\* on both keys and were read before it.
RankPos(rows, i) ==
    1 + Cardinality({ j \in 1 .. Len(rows) :
                        \/ Outranks(rows[j], rows[i])
                        \/ ~Outranks(rows[i], rows[j]) /\ j < i })

Leaderboard(rows) ==
    [k \in 1 .. Len(rows) |-> rows[CHOOSE i \in 1 .. Len(rows) : RankPos(rows, i) = k]]

\* Ranks of the rows under a name.
RanksOf(rows, name) ==
    { RankPos(rows, i) : i \in { j \in 1 .. Len(rows) : rows[j].Name = name } }

Least(S) == CHOOSE x \in S : \A y \in S : x <= y

\* The last pass was the completed branch and its read of the sheet returned.
Ranked == last = "completed" /\ raised # "StoreReadError"

(***************************************************************************)
(* C11: the leaderboard is the records by score descending, then           *)
(* percentage descending, records equal on both keys in read order, and    *)
(* top5 is its prefix of length min(5, number of records).                 *)
(***************************************************************************)
C11_Top5IsSortedPrefix ==
    Ranked =>
        /\ Len(top5) = (IF Len(sheet) < 5 THEN Len(sheet) ELSE 5)
        /\ \A k \in 1 .. Len(top5) : top5[k] = Leaderboard(sheet)[k]

\* Records A(5,80), B(5,90), C(3,100) are shown as B, A, C.
C11_Witness ==
    /\ Ranked
    /\ Len(sheet) = 3
    /\ <<sheet[1].Name, sheet[2].Name, sheet[3].Name>> = <<"A", "B", "C">>
    /\ sheet[1].Score = 5 /\ sheet[3].Score = 3
    /\ <<top5[1].Name, top5[2].Name, top5[3].Name>> = <<"B", "A", "C">>

(***************************************************************************)
(* C12: player_rank is the 1-based position in the sorted records of the   *)
(* first record under the player's name, and is none, with no error        *)
(* raised, when no record has that name.                                   *)
(***************************************************************************)
C12_RankOrNone ==
    Ranked =>
        /\ raised = ""
        /\ player_rank = (IF RanksOf(sheet, Get(player_name)) = {} THEN Absent
                          ELSE Some(Least(RanksOf(sheet, Get(player_name)))))


(***************************************************************************)
(* Vocabulary for the rank shown at completion.                            *)
(***************************************************************************)
\* Index in the sheet of the last row written under a name.
MostRecent(rows, name) ==
    CHOOSE i \in 1 .. Len(rows) :
        /\ rows[i].Name = name
        /\ \A j \in 1 .. Len(rows) : rows[j].Name = name => j <= i

\* The completed branch has shown a rank for the player.
RankShown == Ranked /\ raised = "" /\ Has(player_rank)

(***************************************************************************)
(* C13, as stated: the rank shown at completion is the rank of the         *)
(* player's most recent row (the final row, total = n), not that of an     *)
(* earlier partial row of the same name.                                   *)
(***************************************************************************)
C13_RankOfMostRecentRow ==
    RankShown =>
        Get(player_rank) = RankPos(sheet, MostRecent(sheet, Get(player_name)))

(***************************************************************************)
(* C13, amended: the rank computed by a completed pass is the best rank    *)
(* among all rows under the player's name, the first of them in sorted     *)
(* order, which may be an earlier partial row.                             *)
(***************************************************************************)
C13_RankOfFirstMatchingRow ==
    [][ (now' = now /\ sheet' = sheet /\ last' = "completed" /\ raised' = "")
            => player_rank' = Some(Least(RanksOf(sheet', Get(player_name')))) ]_vars

\* A partial row of the player outranks their final row, and its rank is shown.
C13_Witness ==
    /\ RankShown
    /\ sheet[MostRecent(sheet, Get(player_name))].Total = NumQuestions
    /\ RankPos(sheet, MostRecent(sheet, Get(player_name))) > Get(player_rank)
    /\ \E i \in 1 .. Len(sheet) :
          /\ sheet[i].Name = Get(player_name)
          /\ sheet[i].Total < NumQuestions
          /\ RankPos(sheet, i) = Get(player_rank)


(***************************************************************************)
(* Vocabulary for the countdown.                                           *)
(***************************************************************************)
\* Whole time units since the timer start of the question a pass is about
\* to render; a question without a timer start gets it in that pass.
Elapsed ==
    IF Has(timer_start[CurrentIndex]) THEN now - Get(timer_start[CurrentIndex])
    ELSE 0

(***************************************************************************)
(* C14: in every pass over question i, remaining = max(15 - elapsed, 0),   *)
(* a value in 0..15 (elapsed 0 -> 15, 15 -> 0, 20 -> 0), and the pass      *)
(* takes the timeout transition exactly when remaining = 0.                *)
(***************************************************************************)
C14_RemainingAndTimeout ==
    [][ InProgress =>
          /\ remaining(Elapsed) \in 0 .. 15
          /\ remaining(Elapsed) = (IF Elapsed < 15 THEN 15 - Elapsed ELSE 0)
          /\ (last' = "timeout") <=> (remaining(Elapsed) = 0) ]_vars

\* Question 0 timed out in a pass 20 time units after its timer start.
C14_Witness ==
    /\ last = "timeout"
    /\ Has(current_q) /\ Get(current_q) = 1
    /\ now - Get(timer_start[0]) = 20


(***************************************************************************)
(* Vocabulary for the question order.                                      *)
(***************************************************************************)
Occurrences(seq, x) == Cardinality({ k \in 1 .. Len(seq) : seq[k] = x })

IsPermutation(seq, bank) ==
    /\ Len(seq) = Len(bank)
    /\ \A k \in 1 .. Len(bank) :
          Occurrences(seq, bank[k]) = Occurrences(bank, bank[k])

(***************************************************************************)
(* C15: the session's question order is a permutation of the question      *)
(* bank, created once at session start, and no pass, submit, timeout or    *)
(* store operation changes it; only the restart action removes it.         *)
(***************************************************************************)
C15_OrderIsFixedPermutation ==
    [][ /\ Has(shuffled_questions') =>
              IsPermutation(Get(shuffled_questions'), load_questions)
        /\ Has(shuffled_questions) =>
              \/ shuffled_questions' = shuffled_questions
              \/ ~Has(shuffled_questions') /\ last' = "restart" ]_vars

\* An order other than the bank's own is still in place after an advance.
C15_Witness ==
    /\ Has(shuffled_questions)
    /\ Get(shuffled_questions) # load_questions
    /\ Has(current_q) /\ Get(current_q) >= 1
    /\ Len(sheet) >= 1


(***************************************************************************)
(* Vocabulary for the rows of the Score Store.                             *)
(***************************************************************************)
\* The step moved the session from question i to question i + 1 (a pass
\* that starts a session starts it at question 0).
Advanced == Has(current_q') /\ Get(current_q') = CurrentIndex + 1

\* The step appended one row under the session's player name.
AppendedOwnRow ==
    /\ Len(sheet') = Len(sheet) + 1
    /\ Has(player_name)
    /\ sheet'[Len(sheet')].Name = Get(player_name)

(***************************************************************************)
(* C16: the Score Store is append-only: across every step of any session   *)
(* the earlier rows are a prefix of the later rows, and a session writes   *)
(* exactly one row per advance, whose total is the number of advances so   *)
(* far (1, 2, ..., k, strictly increasing).                                *)
(***************************************************************************)
C16_AppendOnlyOneRowPerAdvance ==
    [][ /\ Len(sheet) <= Len(sheet') /\ Len(sheet') <= Len(sheet) + 1
        /\ SubSeq(sheet', 1, Len(sheet)) = sheet
        /\ Advanced =>
              /\ AppendedOwnRow
              /\ sheet'[Len(sheet')].Total = Get(current_q')
        /\ AppendedOwnRow => Advanced ]_vars

\* The session has advanced twice and its rows, totals 1 and 2, are in the
\* sheet in that order.
C16_Witness ==
    /\ Has(current_q) /\ Get(current_q) = 2
    /\ \E i, j \in 1 .. Len(sheet) :
          /\ i < j
          /\ sheet[i].Name = Get(player_name) /\ sheet[i].Total = 1
          /\ sheet[j].Name = Get(player_name) /\ sheet[j].Total = 2


(***************************************************************************)
(* C17: a question that times out with no option selected adds nothing to  *)
(* score, so the final score is the number of correctly submitted          *)
(* questions: a session whose last question has just timed out unselected  *)
(* ends with a score of at most n - 1 and a last row with total = n.       *)
(***************************************************************************)
C17_UnselectedTimeoutScoresNothing ==
    (/\ IsCompleted
     /\ last = "timeout"
     /\ answer[NumQuestions - 1] = Some(PyNone)) =>
        /\ Score <= NumQuestions - 1
        /\ sheet # <<>>
        /\ sheet[Len(sheet)].Total = NumQuestions


(***************************************************************************)
(* C18: 0 <= current_index <= n in every state, and once current_index = n *)
(* (Completed) no pass changes score or current_index or appends a row of  *)
(* the session; the only step that changes the session state of a          *)
(* completed session is the restart, from the rendered Play Again button.  *)
(***************************************************************************)
C18_CompletedIsFinal ==
    /\ [](Has(current_q) => Get(current_q) \in 0 .. NumQuestions)
    /\ [][ IsCompleted =>
             \/ /\ current_q' = current_q
                /\ score' = score
                /\ shuffled_questions' = shuffled_questions
                /\ player_name' = player_name
                /\ ~AppendedOwnRow
             \/ /\ last' = "restart"
                /\ "again" \in shown
                /\ sheet' = sheet ]_vars

\* A completed session that has been rendered, at a later time than its
\* last advance, with its score and index as the advance left them.
C18_Witness ==
    /\ IsCompleted
    /\ last = "completed"
    /\ raised = ""
    /\ Score >= 1
    /\ now > Get(timer_start[NumQuestions - 1])


(***************************************************************************)
(* Vocabulary for the rows of the current session.                         *)
(***************************************************************************)
\* Rows of the sheet under a name, in sheet order.
RowsOf(rows, name) ==
    LET Own(r) == r.Name = name IN SelectSeq(rows, Own)

(***************************************************************************)
(* C19: current_index is incremented only in a pass whose save_score       *)
(* returned, so the rows the current session has appended are as many as   *)
(* current_index (the last current_index rows under its name) and the i-th *)
(* of them has total = i.                                                  *)
(***************************************************************************)
C19_IndexCountsSavedRows ==
    /\ [](Has(current_q) =>
            LET mine == RowsOf(sheet, Get(player_name))
                k    == Get(current_q)
            IN  /\ Len(mine) >= k
                /\ \A i \in 1 .. k : mine[Len(mine) - k + i].Total = i)
    /\ [][ /\ Advanced <=> AppendedOwnRow
           /\ raised' = "StoreWriteError" => CurrentIndex' = CurrentIndex ]_vars

\* A pass whose save_score raised left the index in place, and the next
\* one, whose save_score returned, advanced it.
C19_Witness ==
    /\ failures >= 1
    /\ Has(current_q) /\ Get(current_q) = 1
    /\ Score = 2
    /\ Len(RowsOf(sheet, Get(player_name))) = 1


(***************************************************************************)
(* C20: a session that is in progress eventually reaches Completed         *)
(* (current_index = n), whatever the player does or does not do, when the  *)
(* clock advances, auto-refresh keeps starting passes and the Score Store  *)
(* calls succeed: every question times out after its 15 time units.        *)
(***************************************************************************)
C20_InProgressLeadsToCompleted == InProgress ~> IsCompleted

\* A session completed with no point scored, every question having run its
\* full time.
C20_Witness ==
    /\ IsCompleted
    /\ Score = 0
    /\ \A i \in Indices : Has(timer_start[i])
    /\ \A i \in Indices :
          i + 1 \in Indices => Get(timer_start[i + 1]) >= Get(timer_start[i]) + time_limit
    /\ now >= Get(timer_start[NumQuestions - 1]) + time_limit
    /\ Len(sheet) = NumQuestions

====
